---- MODULE Spec2Model ----
(***************************************************************************)
(* A model of runpod/serverless/utils/rp_download.py: the two entry points *)
(* download_files_from_urls (concurrent batch download with bounded retry) *)
(* and file (single download with optional zip extraction).                *)
(*                                                                         *)
(* Python strings are sequences of one-character strings, so that          *)
(* os.path.splitext, re.findall, urlparse and the email header parser are  *)
(* computed character by character.  A uuid is one opaque token of such a  *)
(* sequence.  Paths are character sequences with "/" separators.           *)
(***************************************************************************)
EXTENDS Naturals, Sequences, FiniteSets, TLC

(***************************************************************************)
(* Bounds of the model.                                                    *)
(***************************************************************************)
\* longest list of URL slots passed to download_files_from_urls
MaxUrls == 2
\* largest thread pool ThreadPoolExecutor() is given by the runtime
MaxWorkers == 2

(***************************************************************************)
(* Program constants.                                                      *)
(***************************************************************************)
\* mutants of max_tries: one try too many, one try too few
max_tries_4 == 3 + 1
max_tries_2 == 3 - 1

\* backoff.on_exception(..., max_tries=3)
max_tries == 3

\* Python's None, as a value comparable with every string of the model
None == <<"None">>

(***************************************************************************)
(* String helpers.                                                         *)
(***************************************************************************)
\* str.find(c) + 1: the first index of c in s, 0 when absent
Find(s, c) ==
    IF \E i \in 1..Len(s) : s[i] = c
    THEN CHOOSE i \in 1..Len(s) : s[i] = c /\ \A j \in 1..(i - 1) : s[j] # c
    ELSE 0

\* str.rfind(c) + 1: the last index of c in s, 0 when absent
RFind(s, c) ==
    IF \E i \in 1..Len(s) : s[i] = c
    THEN CHOOSE i \in 1..Len(s) : s[i] = c /\ \A j \in (i + 1)..Len(s) : s[j] # c
    ELSE 0

\* s[i:] of Python for the 1-based index i
From(s, i) == SubSeq(s, i, Len(s))

\* the first index at which pat occurs in s as a substring, 0 when it does not
FindSub(s, pat) ==
    LET Occurs(i) == i + Len(pat) - 1 <= Len(s) /\ SubSeq(s, i, i + Len(pat) - 1) = pat
    IN  IF \E i \in 1..Len(s) : Occurs(i)
        THEN CHOOSE i \in 1..Len(s) : Occurs(i) /\ \A j \in 1..(i - 1) : ~Occurs(j)
        ELSE 0

\* str.lstrip() for blanks
RECURSIVE lstrip(_)
lstrip(s) == IF s # <<>> /\ Head(s) = " " THEN lstrip(Tail(s)) ELSE s

\* str.replace('.', '')
replace_dot(s) == SelectSeq(s, LAMBDA c : c # ".")

(***************************************************************************)
(* os.path                                                                 *)
(***************************************************************************)
cwd == <<"/", "w">>

\* os.path.join(a, b) for a relative b
join(a, b) == a \o <<"/">> \o b

\* os.path.abspath
abspath(p) == IF p # <<>> /\ p[1] = "/" THEN p ELSE join(cwd, p)

\* os.path.splitext: the extension starts at the last dot of the last path
\* component, unless that component has only dots before it
splitext(p) ==
    LET sepIndex == RFind(p, "/")
        dotIndex == RFind(p, ".")
    IN  IF dotIndex > sepIndex /\ \E k \in (sepIndex + 1)..(dotIndex - 1) : p[k] # "."
        THEN <<SubSeq(p, 1, dotIndex - 1), From(p, dotIndex)>>
        ELSE <<p, <<>>>>

\* os.path.basename
basename(p) == From(p, RFind(p, "/") + 1)

\* the directory and every ancestor of it that os.makedirs creates
Ancestors(p) ==
    {SubSeq(p, 1, k) : k \in {j \in 2..Len(p) : j = Len(p) \/ p[j + 1] = "/"}}

(***************************************************************************)
(* urllib.parse.urlparse(url).path                                         *)
(***************************************************************************)
urlparse_path(url) ==
    LET cut(s, c) == IF Find(s, c) = 0 THEN s ELSE SubSeq(s, 1, Find(s, c) - 1)
        noFragment == cut(url, "#")
        colon == Find(noFragment, ":")
        rest == From(noFragment, colon + 1)
        hasNetloc == Len(rest) >= 2 /\ rest[1] = "/" /\ rest[2] = "/"
        afterNetloc == IF hasNetloc
                       THEN LET r == From(rest, 3)
                            IN  IF Find(r, "/") = 0 THEN <<>> ELSE From(r, Find(r, "/"))
                       ELSE rest
    IN  cut(afterNetloc, "?")

(***************************************************************************)
(* email.message_from_string for a one-line message, and msg.items()       *)
(***************************************************************************)
\* the (name, value) pairs of the headers of the message
message_items(text) ==
    LET colon == Find(text, ":")
    IN  IF colon = 0
        THEN <<>>
        ELSE << <<SubSeq(text, 1, colon - 1), lstrip(From(text, colon + 1))>> >>

\* dict(items).get(key, default)
dict_get(items, key, default) ==
    IF \E k \in 1..Len(items) : items[k][1] = key
    THEN LET last == CHOOSE k \in 1..Len(items) :
                         items[k][1] = key /\ \A j \in (k + 1)..Len(items) : items[j][1] # key
         IN  items[last][2]
    ELSE default

(***************************************************************************)
(* String literals of the program and of its inputs.                       *)
(***************************************************************************)
\* 'Content-Disposition: ' of the f-string handed to message_from_string
ContentDispositionLine ==
    <<"C", "o", "n", "t", "e", "n", "t", "-", "D", "i", "s", "p", "o", "s", "i", "t", "i", "o", "n", ":", " ">>
\* 'filename', the key looked up in params
filename_key == <<"f", "i", "l", "e", "n", "a", "m", "e">>
\* 'filename=', the literal prefix of the pattern "filename=(.+)"
filename_eq == <<"f", "i", "l", "e", "n", "a", "m", "e", "=">>
\* 'zip'
zip == <<"z", "i", "p">>

\* http://x/y/report.csv
UrlCsv == <<"h", "t", "t", "p", ":", "/", "/", "x", "/", "y", "/", "r", "e", "p", "o", "r", "t", ".", "c", "s", "v">>
\* http://x/a.zip
UrlZip == <<"h", "t", "t", "p", ":", "/", "/", "x", "/", "a", ".", "z", "i", "p">>
\* http://x/DATA.ZIP
UrlUpperZip == <<"h", "t", "t", "p", ":", "/", "/", "x", "/", "D", "A", "T", "A", ".", "Z", "I", "P">>
\* http://x/y/
UrlDir == <<"h", "t", "t", "p", ":", "/", "/", "x", "/", "y", "/">>

\* attachment; filename="data.json"
CdQuotedJson ==
    <<"a", "t", "t", "a", "c", "h", "m", "e", "n", "t", ";", " ", "f", "i", "l", "e", "n", "a", "m", "e", "=", "\"", "d", "a", "t", "a", ".", "j", "s", "o", "n", "\"">>
\* attachment; filename="a.png"
CdQuotedPng ==
    <<"a", "t", "t", "a", "c", "h", "m", "e", "n", "t", ";", " ", "f", "i", "l", "e", "n", "a", "m", "e", "=", "\"", "a", ".", "p", "n", "g", "\"">>
\* attachment; filename=a.zip
CdZip ==
    <<"a", "t", "t", "a", "c", "h", "m", "e", "n", "t", ";", " ", "f", "i", "l", "e", "n", "a", "m", "e", "=", "a", ".", "z", "i", "p">>
\* attachment
CdNoFilename == <<"a", "t", "t", "a", "c", "h", "m", "e", "n", "t">>

(***************************************************************************)
(* The HTTP side: what requests.get can produce.  exc is the exception the *)
(* call raises ("none" when it returns a response), cd the value of the    *)
(* Content-Disposition header (None when the header is absent).            *)
(***************************************************************************)
Response(exc, status_code, content, cd) ==
    [exc |-> exc, status_code |-> status_code, content |-> content, cd |-> cd]

\* requests.get raising Timeout or ConnectionError
GetRaises == {Response("Timeout", 0, "", None), Response("ConnectionError", 0, "", None)}

\* a 404 answer with an error page as its body
NotFound == Response("none", 404, "e404", None)

\* what the server may answer to a GET of download_file
BatchResponses ==
    GetRaises \cup {NotFound, Response("none", 200, "b1", None),
                    Response("none", 200, "b2", CdQuotedPng)}

\* what the server may answer to the GET of file
FileResponses ==
    {Response("Timeout", 0, "", None), NotFound}
        \cup {Response("none", 200, b, h) :
                b \in {"b1", "PK"}, h \in {None, CdQuotedJson, CdZip, CdNoFilename}}

\* the URLs handed to file
FileUrls == {UrlCsv, UrlZip, UrlUpperZip, UrlDir}

\* the URLs of the slots handed to download_files_from_urls
BatchUrls == {UrlZip}

\* mutant of raise_for_status: the status is never checked
raise_for_status_never(response) == FALSE

\* response.raise_for_status(): TRUE when it raises HTTPError
raise_for_status(response) == response.status_code >= 400

\* the exception classes derived from requests.exceptions.RequestException
RequestException == {"Timeout", "ConnectionError", "HTTPError"}

\* lines 36-38: the extension download_file derives from the header
file_extension_of(content_disposition) ==
    LET msg == message_items(ContentDispositionLine \o content_disposition)
        params == IF content_disposition # None /\ content_disposition # <<>>
                  THEN msg ELSE <<>>
    IN  splitext(dict_get(params, filename_key, <<>>))[2]

\* one call of the undecorated download_file on the answer of the server:
\* the exception it raises, or "ok"
download_file_outcome(response) ==
    IF response.exc # "none" THEN response.exc
    ELSE IF raise_for_status(response) THEN "HTTPError"
    ELSE "ok"

\* re.findall("filename=(.+)", header) for a one-line header: the list of
\* the matches of the group
findall_filename(header) ==
    LET at == FindSub(header, filename_eq)
    IN  IF at = 0 \/ at + Len(filename_eq) > Len(header)
        THEN <<>>
        ELSE <<From(header, at + Len(filename_eq))>>

\* zipfile: the entries of a body that is a valid archive
ZipEntries(content) == IF content = "PK" THEN {<<"e", "1">>, <<"d", "/", "e", "2">>} ELSE {}
\* mutant of is_zipfile: every body is opened as an archive
is_zipfile_always(content) == TRUE

\* zipfile.ZipFile(path) raises BadZipFile on any other body
is_zipfile(content) == content = "PK"

(***************************************************************************)
(* State.                                                                  *)
(***************************************************************************)
VARIABLES
    call,              \* the entry point that was called
    argument,          \* the value the caller passed as urls: [type, value]
    pc,                \* position of the calling thread in it
    urls,              \* the local urls, rebound by line 60
    max_workers,       \* size of the pool of ThreadPoolExecutor()
    worker,            \* per slot: the future and the locals of download_file_to_path
    downloaded_files,  \* the results collected from executor.map so far
    raised,            \* the exception leaving the call, "none" if none
    fs_dirs,           \* directories on disk
    fs_files,          \* files on disk: absolute path -> content
    next_uuid,         \* number of uuid4() values drawn
    local,             \* locals of file
    record             \* the dictionary file returns

vars == <<call, argument, pc, urls, max_workers, worker, downloaded_files, raised,
          fs_dirs, fs_files, next_uuid, local, record>>

job_id == <<"j">>

\* line 28
download_directory == abspath(join(join(<<"jobs">>, job_id), <<"downloaded_files">>))

\* uuid.uuid4() as a string: a fresh token per draw
uuid4(n) == ToString(n)

\* mutant of makedirs: the directory is not created
makedirs_missing(dirs, path) == dirs

\* os.makedirs(path, exist_ok=True)
makedirs(dirs, path) == dirs \cup Ancestors(abspath(path))

\* mutant of write_file: the file is created but the body is not written
write_file_empty(files, path, content) ==
    [p \in DOMAIN files \cup {abspath(path)} |->
        IF p = abspath(path) THEN "" ELSE files[p]]

\* open(path, 'wb') followed by write(content)
write_file(files, path, content) ==
    [p \in DOMAIN files \cup {abspath(path)} |->
        IF p = abspath(path) THEN content ELSE files[p]]

SeqsUpTo(S, n) == UNION {[1..m -> S] : m \in 0..n}

\* the values of the argument urls: a bare string or a list of slots
BatchInputs ==
    {[type |-> "str", value |-> u] : u \in BatchUrls}
        \cup {[type |-> "list", value |-> l] : l \in SeqsUpTo(BatchUrls \cup {None}, MaxUrls)}

NoLocal ==
    [file_url |-> None, download_response |-> Response("none", 0, "", None),
     original_file_name |-> None, file_type |-> None, file_name |-> None,
     output_file_path |-> None, unziped_directory |-> None, gets |-> 0]

NoRecord == [file_path |-> None, type |-> None, original_name |-> None,
             extracted_path |-> None]

NewWorker(url) ==
    [url |-> url, pc |-> "pending", tries |-> 0, last |-> "none",
     response |-> Response("none", 0, "", None), file_data |-> "",
     content_disposition |-> None, file_extension |-> <<>>, file_name |-> None,
     output_file_path |-> None, result |-> None, exc |-> "none"]

InitBatch ==
    /\ call = "download_files_from_urls"
    /\ pc = "makedirs"
    /\ argument \in BatchInputs
    /\ urls = argument
    /\ max_workers \in 1..MaxWorkers
    /\ worker = <<>>
    /\ downloaded_files = <<>>
    /\ raised = "none"
    /\ fs_dirs \in {{cwd}, makedirs({cwd}, download_directory)}
    /\ fs_files = <<>>
    /\ next_uuid = 0
    /\ local = NoLocal
    /\ record = NoRecord

InitFile ==
    /\ call = "file"
    /\ pc = "f_makedirs"
    /\ argument = [type |-> "list", value |-> <<>>]
    /\ urls = argument
    /\ max_workers = 1
    /\ worker = <<>>
    /\ downloaded_files = <<>>
    /\ raised = "none"
    /\ fs_dirs \in {{cwd}, makedirs({cwd}, <<"job_files">>)}
    /\ fs_files = <<>>
    /\ next_uuid = 0
    /\ local \in {[NoLocal EXCEPT !.file_url = u] : u \in FileUrls}
    /\ record = NoRecord

Init == InitBatch \/ InitFile

(***************************************************************************)
(* download_files_from_urls: the calling thread.                           *)
(***************************************************************************)
\* lines 28-29: os.makedirs(download_directory, exist_ok=True); it creates
\* the directory, finds it existing, or raises OSError out of the call
MakeDirs ==
    /\ call = "download_files_from_urls" /\ pc = "makedirs"
    /\ \/ /\ fs_dirs' = makedirs(fs_dirs, download_directory)
          /\ pc' = "submit"
          /\ raised' = raised
       \/ /\ download_directory \notin fs_dirs
          /\ fs_dirs' = fs_dirs
          /\ pc' = "raised"
          /\ raised' = "OSError"
    /\ UNCHANGED <<call, argument, urls, max_workers, worker, downloaded_files, fs_files,
                   next_uuid, local, record>>

\* lines 59-60: a bare string becomes a one-element list
normalize(u) == IF u.type = "str" THEN <<u.value>> ELSE u.value

\* lines 59-63: normalise urls, enter the executor and let executor.map
\* submit one future per slot, in input order
Submit ==
    /\ pc = "submit"
    /\ urls' = [type |-> "list", value |-> normalize(urls)]
    /\ worker' = [i \in 1..Len(normalize(urls)) |-> NewWorker(normalize(urls)[i])]
    /\ pc' = "collect"
    /\ UNCHANGED <<call, argument, max_workers, downloaded_files, raised, fs_dirs, fs_files,
                   next_uuid, local, record>>

Slots == DOMAIN worker
Running(i) == worker[i].pc \in {"get", "sleep", "open", "write"}
Settled(i) == worker[i].pc \in {"done", "collected", "cancelled"}

\* mutant of next_future: results are taken as they complete
next_future_completed(w) ==
    IF \E i \in DOMAIN w : w[i].pc = "done"
    THEN CHOOSE i \in DOMAIN w : w[i].pc = "done" /\ \A j \in (i + 1)..Len(w) : w[j].pc # "done"
    ELSE IF \E i \in DOMAIN w : w[i].pc # "collected"
    THEN CHOOSE i \in DOMAIN w :
            w[i].pc # "collected" /\ \A j \in 1..(i - 1) : w[j].pc = "collected"
    ELSE 0

\* the future whose result the iterator of executor.map yields next: the
\* first in input order that it has not yielded (0 when none is left)
next_future(w) ==
    IF \E i \in DOMAIN w : w[i].pc # "collected"
    THEN CHOOSE i \in DOMAIN w :
            w[i].pc # "collected" /\ \A j \in 1..(i - 1) : w[j].pc = "collected"
    ELSE 0

\* mutant of collect: failed slots are left out of the list
collect_drop_none(files, result) == IF result = None THEN files ELSE Append(files, result)

\* list(...) appends each result the iterator yields
collect(files, result) == Append(files, result)

\* line 63: list(executor.map(...)) takes the results in input order, each
\* when its future is done.  A future that holds an exception re-raises it
\* here; the iterator then cancels the futures that have not started.
Collect ==
    /\ pc = "collect"
    /\ LET i == next_future(worker)
       IN  IF i = 0
           THEN /\ pc' = "shutdown"
                /\ UNCHANGED <<downloaded_files, raised, worker>>
           ELSE /\ worker[i].pc = "done"
                /\ IF worker[i].exc = "none"
                   THEN /\ downloaded_files' = collect(downloaded_files, worker[i].result)
                        /\ worker' = [worker EXCEPT ![i].pc = "collected"]
                        /\ UNCHANGED <<pc, raised>>
                   ELSE /\ raised' = worker[i].exc
                        /\ worker' = [j \in Slots |->
                                        IF worker[j].pc = "pending"
                                        THEN [worker[j] EXCEPT !.pc = "cancelled"]
                                        ELSE worker[j]]
                        /\ pc' = "shutdown"
                        /\ UNCHANGED downloaded_files
    /\ UNCHANGED <<call, argument, urls, max_workers, fs_dirs, fs_files, next_uuid, local, record>>

\* mutant of Shutdown: the executor is left without waiting for the workers
Shutdown_nowait ==
    /\ pc = "shutdown"
    /\ pc' = IF raised = "none" THEN "returned" ELSE "raised"
    /\ UNCHANGED <<call, argument, urls, max_workers, worker, downloaded_files, raised, fs_dirs,
                   fs_files, next_uuid, local, record>>

\* lines 62-65: leaving the with block waits for every running worker
\* (shutdown(wait=True)); then the call returns the list or raises
Shutdown ==
    /\ pc = "shutdown"
    /\ \A i \in Slots : Settled(i)
    /\ pc' = IF raised = "none" THEN "returned" ELSE "raised"
    /\ UNCHANGED <<call, argument, urls, max_workers, worker, downloaded_files, raised, fs_dirs,
                   fs_files, next_uuid, local, record>>

(***************************************************************************)
(* download_files_from_urls: the pool threads running                      *)
(* download_file_to_path(url) for slot i.                                  *)
(***************************************************************************)
WorkerFrame == UNCHANGED <<call, argument, pc, urls, max_workers, downloaded_files, raised,
                           local, record>>

\* mutant of skip: a None slot is downloaded like any other
skip_never(url) == FALSE

\* line 42
skip(url) == url = None

\* a pool thread takes the oldest queued future; lines 42-43: a None slot
\* returns None at once
Start(i) ==
    /\ worker[i].pc = "pending"
    /\ \A j \in 1..(i - 1) : worker[j].pc # "pending"
    /\ Cardinality({j \in Slots : Running(j)}) < max_workers
    /\ worker' = [worker EXCEPT ![i] =
                    IF skip(worker[i].url)
                    THEN [@ EXCEPT !.pc = "done", !.result = None]
                    ELSE [@ EXCEPT !.pc = "get"]]
    /\ WorkerFrame
    /\ UNCHANGED <<fs_dirs, fs_files, next_uuid>>

\* mutant of after_attempt: no except clause, the last exception leaves
\* download_file_to_path
after_attempt_reraise(w, tries, outcome, response) ==
    IF outcome = "ok"
    THEN [w EXCEPT !.tries = tries, !.last = outcome, !.response = response,
                   !.pc = "open",
                   !.file_data = response.content,
                   !.content_disposition = response.cd,
                   !.file_extension = file_extension_of(response.cd)]
    ELSE IF outcome \in RequestException /\ tries < max_tries
    THEN [w EXCEPT !.tries = tries, !.last = outcome, !.response = response,
                   !.pc = "sleep"]
    ELSE [w EXCEPT !.tries = tries, !.last = outcome, !.response = response,
                   !.pc = "done", !.exc = outcome]

\* the outcome of download_file_to_path once download_file has been tried
\* `tries` times and the last try ended with `outcome`: backoff retries a
\* RequestException while tries remain; after the last try the exception
\* reaches the except clause of lines 47-49, which returns None
after_attempt(w, tries, outcome, response) ==
    IF outcome = "ok"
    THEN [w EXCEPT !.tries = tries, !.last = outcome, !.response = response,
                   !.pc = "open",
                   !.file_data = response.content,
                   !.content_disposition = response.cd,
                   !.file_extension = file_extension_of(response.cd)]
    ELSE IF outcome \in RequestException /\ tries < max_tries
    THEN [w EXCEPT !.tries = tries, !.last = outcome, !.response = response,
                   !.pc = "sleep"]
    ELSE [w EXCEPT !.tries = tries, !.last = outcome, !.response = response,
                   !.pc = "done", !.result = None]

\* lines 31-39 and 45-49: one GET of download_file
Get(i) ==
    /\ worker[i].pc = "get"
    /\ \E response \in BatchResponses :
          worker' = [worker EXCEPT ![i] =
                        after_attempt(@, @.tries + 1, download_file_outcome(response),
                                      response)]
    /\ WorkerFrame
    /\ UNCHANGED <<fs_dirs, fs_files, next_uuid>>

\* line 31: the delay backoff.expo puts between two tries ends
Sleep(i) ==
    /\ worker[i].pc = "sleep"
    /\ worker' = [worker EXCEPT ![i].pc = "get"]
    /\ WorkerFrame
    /\ UNCHANGED <<fs_dirs, fs_files, next_uuid>>

\* mutant of new_file_name: a fixed base name instead of the uuid
new_file_name_fixed(uuid, file_extension) == <<"download">> \o file_extension

\* line 51: f'{uuid.uuid4()}{file_extension}'
new_file_name(uuid, file_extension) == <<uuid>> \o file_extension

\* lines 51-54: draw the uuid, build the path, open the file for writing
\* (creating it empty), or fail with OSError
Open(i) ==
    /\ worker[i].pc = "open"
    /\ next_uuid' = next_uuid + 1
    /\ LET file_name == new_file_name(uuid4(next_uuid'), worker[i].file_extension)
           output_file_path == join(download_directory, file_name)
       IN  \/ /\ download_directory \in fs_dirs
              /\ fs_files' = write_file(fs_files, output_file_path, "")
              /\ worker' = [worker EXCEPT ![i].pc = "write",
                                          ![i].file_name = file_name,
                                          ![i].output_file_path = output_file_path]
           \/ /\ fs_files' = fs_files
              /\ worker' = [worker EXCEPT ![i].pc = "done", ![i].exc = "OSError",
                                          ![i].file_name = file_name,
                                          ![i].output_file_path = output_file_path]
    /\ WorkerFrame
    /\ UNCHANGED fs_dirs

\* mutant of Write: a failed write is caught and the slot becomes None
Write_swallow(i) ==
    /\ worker[i].pc = "write"
    /\ \/ /\ fs_files' = write_file(fs_files, worker[i].output_file_path,
                                    worker[i].file_data)
          /\ worker' = [worker EXCEPT ![i].pc = "done",
                                      ![i].result = abspath(worker[i].output_file_path)]
       \/ /\ fs_files' = fs_files
          /\ worker' = [worker EXCEPT ![i].pc = "done", ![i].result = None]
    /\ WorkerFrame
    /\ UNCHANGED <<fs_dirs, next_uuid>>

\* lines 55-57: write the body and return the absolute path, or fail with
\* OSError leaving the file as opened
Write(i) ==
    /\ worker[i].pc = "write"
    /\ \/ /\ fs_files' = write_file(fs_files, worker[i].output_file_path,
                                    worker[i].file_data)
          /\ worker' = [worker EXCEPT ![i].pc = "done",
                                      ![i].result = abspath(worker[i].output_file_path)]
       \/ /\ fs_files' = fs_files
          /\ worker' = [worker EXCEPT ![i].pc = "done", ![i].exc = "OSError"]
    /\ WorkerFrame
    /\ UNCHANGED <<fs_dirs, next_uuid>>

(***************************************************************************)
(* file                                                                    *)
(***************************************************************************)
FileFrame == UNCHANGED <<call, argument, urls, max_workers, worker, downloaded_files>>

\* line 79: os.makedirs('job_files', exist_ok=True)
FileMakeDirs ==
    /\ pc = "f_makedirs"
    /\ \/ /\ fs_dirs' = makedirs(fs_dirs, <<"job_files">>)
          /\ pc' = "f_get"
          /\ raised' = raised
       \/ /\ abspath(<<"job_files">>) \notin fs_dirs
          /\ fs_dirs' = fs_dirs
          /\ pc' = "raised"
          /\ raised' = "OSError"
    /\ FileFrame
    /\ UNCHANGED <<fs_files, next_uuid, local, record>>

\* line 81: the one GET; an exception of requests.get leaves the call
FileGet ==
    /\ pc = "f_get"
    /\ \E response \in FileResponses :
          IF response.exc # "none"
          THEN /\ raised' = response.exc
               /\ pc' = "raised"
               /\ local' = [local EXCEPT !.gets = @ + 1]
          ELSE /\ local' = [local EXCEPT !.download_response = response,
                                         !.gets = @ + 1]
               /\ pc' = "f_name"
               /\ raised' = raised
    /\ FileFrame
    /\ UNCHANGED <<fs_dirs, fs_files, next_uuid, record>>

\* mutant of original_file_name_of: the URL is used only when the header is
\* missing, a header without filename= gives an empty name
original_file_name_header_first(response, file_url) ==
    IF response.cd # None
    THEN LET matches == findall_filename(response.cd)
         IN  IF Len(matches) > 0 THEN matches[1] ELSE <<>>
    ELSE basename(urlparse_path(file_url))

\* lines 83-94: the first match of the pattern in the header, else the
\* last segment of the path of the URL
original_file_name_of(response, file_url) ==
    LET matches == IF response.cd # None THEN findall_filename(response.cd) ELSE <<>>
    IN  IF Len(matches) > 0 THEN matches[1] ELSE basename(urlparse_path(file_url))

\* line 96
file_type_of(original_file_name) == replace_dot(splitext(original_file_name)[2])

\* lines 83-100: the name, the type, the uuid and the path of the file
FileName ==
    /\ pc = "f_name"
    /\ next_uuid' = next_uuid + 1
    /\ \E original_file_name \in {original_file_name_of(local.download_response,
                                                          local.file_url)} :
       \E file_type \in {file_type_of(original_file_name)} :
          LET file_name == <<uuid4(next_uuid')>>
          IN  local' = [local EXCEPT
                           !.original_file_name = original_file_name,
                           !.file_type = file_type,
                           !.file_name = file_name,
                           !.output_file_path =
                               join(<<"job_files">>, file_name \o <<".">> \o file_type)]
    /\ pc' = "f_write"
    /\ FileFrame
    /\ UNCHANGED <<raised, fs_dirs, fs_files, record>>

\* lines 101-102: write the body, or fail with OSError
FileWrite ==
    /\ pc = "f_write"
    /\ \/ /\ fs_files' = write_file(fs_files, local.output_file_path,
                                    local.download_response.content)
          /\ pc' = "f_extract"
          /\ raised' = raised
       \/ /\ fs_files' = fs_files
          /\ pc' = "raised"
          /\ raised' = "OSError"
    /\ FileFrame
    /\ UNCHANGED <<fs_dirs, next_uuid, local, record>>

\* str.lower() for the letters of the model
lower(s) ==
    LET upper == <<"A", "D", "I", "P", "T", "Z">>
        small == <<"a", "d", "i", "p", "t", "z">>
    IN  [k \in 1..Len(s) |->
            IF \E n \in 1..Len(upper) : upper[n] = s[k]
            THEN small[CHOOSE n \in 1..Len(upper) : upper[n] = s[k]]
            ELSE s[k]]

\* mutant of is_zip: the type is compared without regard to case
is_zip_any_case(file_type) == lower(file_type) = zip

\* line 104: the test that selects extraction
is_zip(file_type) == file_type = zip

\* mutant of extractall: the entries are written next to the archive, not
\* into the directory made for them
extractall_beside(files, content, directory) ==
    [p \in DOMAIN files \cup {abspath(join(<<"job_files">>, e)) : e \in ZipEntries(content)} |->
        IF p \in DOMAIN files THEN files[p] ELSE "entry"]

\* line 108: extractall writes every entry of the archive below the directory
extractall(files, content, directory) ==
    [p \in DOMAIN files \cup {abspath(join(directory, e)) : e \in ZipEntries(content)} |->
        IF p \in DOMAIN files THEN files[p] ELSE "entry"]

\* lines 104-111: a zip is extracted into job_files/<file_name>; a body
\* that is no archive raises BadZipFile after the directory was made
FileExtract ==
    /\ pc = "f_extract"
    /\ IF is_zip(local.file_type)
       THEN LET unziped_directory == join(<<"job_files">>, local.file_name)
                content == fs_files[abspath(local.output_file_path)]
            IN  /\ fs_dirs' = makedirs(fs_dirs, unziped_directory)
                /\ IF is_zipfile(content)
                   THEN /\ fs_files' = extractall(fs_files, content, unziped_directory)
                        /\ local' = [local EXCEPT
                                        !.unziped_directory = abspath(unziped_directory)]
                        /\ pc' = "f_return"
                        /\ raised' = raised
                   ELSE /\ fs_files' = fs_files
                        /\ local' = [local EXCEPT !.unziped_directory = unziped_directory]
                        /\ pc' = "raised"
                        /\ raised' = "BadZipFile"
       ELSE /\ local' = [local EXCEPT !.unziped_directory = None]
            /\ pc' = "f_return"
            /\ UNCHANGED <<fs_dirs, fs_files, raised>>
    /\ FileFrame
    /\ UNCHANGED <<next_uuid, record>>

\* lines 113-118
FileReturn ==
    /\ pc = "f_return"
    /\ record' = [file_path |-> abspath(local.output_file_path),
                  type |-> local.file_type,
                  original_name |-> local.original_file_name,
                  extracted_path |-> local.unziped_directory]
    /\ pc' = "returned"
    /\ FileFrame
    /\ UNCHANGED <<raised, fs_dirs, fs_files, next_uuid, local>>

(***************************************************************************)
(* The specification.                                                      *)
(***************************************************************************)
Next ==
    \/ MakeDirs
    \/ Submit
    \/ Collect
    \/ Shutdown
    \/ \E i \in Slots : Start(i)
    \/ \E i \in Slots : Get(i)
    \/ \E i \in Slots : Sleep(i)
    \/ \E i \in Slots : Open(i)
    \/ \E i \in Slots : Write(i)
    \/ FileMakeDirs
    \/ FileGet
    \/ FileName
    \/ FileWrite
    \/ FileExtract
    \/ FileReturn

Spec == Init /\ [][Next]_vars

\* Every GET returns or raises within its timeout, every backoff delay and
\* every disk operation ends, and the threads are scheduled: while a step of
\* the program is possible, one is taken.
FairSpec == Spec /\ WF_vars(Next)

(***************************************************************************)
(* Vocabulary of the properties.                                           *)
(***************************************************************************)
BatchCall == call = "download_files_from_urls"
BatchReturned == BatchCall /\ pc = "returned"
FileReturned == call = "file" /\ pc = "returned"

\* the URL slots of the argument: a bare string is one slot
SlotsOf(a) == IF a.type = "str" THEN <<a.value>> ELSE a.value

\* an attempt fails when requests.get raises or the status is not 2xx
AttemptFailed(response) == response.exc # "none" \/ response.status_code \notin 200..299

\* the download of slot i has succeeded: its last GET was answered 2xx
Succeeded(i) == worker[i].tries > 0 /\ ~AttemptFailed(worker[i].response)

\* all three attempts of slot i have failed
Exhausted(i) == worker[i].tries = 3 /\ AttemptFailed(worker[i].response)

Finished(i) == worker[i].pc \in {"done", "collected"}

\* p names a file directly inside jobs/j/downloaded_files
InDownloadDir(p) ==
    LET d == <<"/", "w", "/", "jobs", "/", "j", "/", "downloaded_files", "/">>
    IN  /\ Len(p) > Len(d)
        /\ SubSeq(p, 1, Len(d)) = d
        /\ \A k \in (Len(d) + 1)..Len(p) : p[k] # "/"

(***************************************************************************)
(* C1: when download_files_from_urls returns, the list it returns has one  *)
(* entry per URL slot of the input, whichever slots failed; a bare string  *)
(* is a one-slot input.                                                    *)
(***************************************************************************)
C1_LengthPreserved ==
    BatchReturned => Len(downloaded_files) = Len(SlotsOf(argument))

C1_Witness ==
    /\ BatchReturned
    /\ argument.type = "list" /\ Len(argument.value) = 2
    /\ Exhausted(1) /\ downloaded_files[1] = None
    /\ downloaded_files[2] # None

(***************************************************************************)
(* C2: in the returned list, entry i is the outcome of the URL of input    *)
(* slot i however the workers interleave: a path iff the download of that  *)
(* slot succeeded within its tries, None otherwise.                        *)
(***************************************************************************)
C2_EntryIsOutcomeOfSlot ==
    BatchReturned =>
        \A i \in 1..Len(SlotsOf(argument)) :
            /\ i \in DOMAIN downloaded_files /\ i \in Slots
            /\ worker[i].url = SlotsOf(argument)[i]
            /\ downloaded_files[i] = worker[i].result
            /\ downloaded_files[i] # None <=> Succeeded(i)
            /\ Succeeded(i) => worker[i].tries <= 3

C2_Witness ==
    /\ BatchReturned
    /\ Len(downloaded_files) = 2
    /\ Succeeded(1) /\ downloaded_files[1] # None
    /\ Exhausted(2) /\ downloaded_files[2] = None

(***************************************************************************)
(* C3: a slot whose three attempts all failed with a request-class error   *)
(* ends as None without an exception; no request-class exception leaves    *)
(* the call, no other slot is cancelled because of it, and the call raises *)
(* only when a worker failed with a filesystem error.                      *)
(***************************************************************************)
C3_FailureIsolated ==
    BatchCall =>
        /\ \A i \in Slots :
              Exhausted(i) =>
                  Finished(i) /\ worker[i].exc = "none" /\ worker[i].result = None
        /\ \A i \in Slots : worker[i].exc \notin {"Timeout", "ConnectionError", "HTTPError"}
        /\ raised \notin {"Timeout", "ConnectionError", "HTTPError"}
        /\ \A j \in Slots :
              worker[j].pc = "cancelled" => \E k \in 1..(j - 1) : worker[k].exc = "OSError"
        /\ (pc = "raised" /\ worker # <<>>) => \E k \in Slots : worker[k].exc = "OSError"

C3_Witness ==
    /\ BatchReturned
    /\ \E i, j \in Slots :
          /\ Exhausted(i) /\ worker[i].response.status_code = 404
          /\ downloaded_files[i] = None
          /\ Succeeded(j) /\ downloaded_files[j] # None

(***************************************************************************)
(* C4: every step that issues a GET for a slot issues one GET, for a slot  *)
(* that is not None, as the first, second or third of the slot, and after  *)
(* the first only when the previous attempt failed; so never after a       *)
(* success and never a fourth.                                             *)
(***************************************************************************)
C4_AtMostThreeAttempts ==
    [][/\ \A i \in DOMAIN worker' \ DOMAIN worker : worker'[i].tries = 0
       /\ \A i \in DOMAIN worker \cap DOMAIN worker' :
             worker'[i].tries # worker[i].tries =>
                 /\ worker'[i].tries = worker[i].tries + 1
                 /\ worker'[i].tries <= 3
                 /\ worker[i].url # None
                 /\ worker[i].tries > 0 => AttemptFailed(worker[i].response)]_vars

C4_Witness ==
    \E i \in Slots : worker[i].tries = 3 /\ Succeeded(i)

(***************************************************************************)
(* C5: a slot gives up only after three failed attempts, and a slot whose  *)
(* first, second or third attempt succeeded has a path, not None, as its   *)
(* result and as its entry of the returned list.                           *)
(***************************************************************************)
C5_SuccessWithinThreeTriesYieldsPath ==
    BatchCall =>
        /\ \A i \in Slots :
              (Finished(i) /\ worker[i].url # None /\ worker[i].exc = "none") =>
                  /\ worker[i].result = None => Exhausted(i)
                  /\ Succeeded(i) => worker[i].result # None
        /\ pc = "returned" =>
              \A i \in Slots : Succeeded(i) => downloaded_files[i] # None

C5_Witness ==
    /\ BatchReturned
    /\ \E i \in Slots :
          worker[i].tries = 3 /\ Succeeded(i) /\ downloaded_files[i] # None

(***************************************************************************)
(* C6: a None slot never issues a GET and never touches the disk, and the  *)
(* returned list has None at its index.                                    *)
(***************************************************************************)
C6_NullSlotSkipped ==
    BatchCall =>
        /\ \A i \in Slots :
              worker[i].url = None =>
                  /\ worker[i].tries = 0
                  /\ worker[i].pc \in {"pending", "done", "collected", "cancelled"}
                  /\ worker[i].result = None /\ worker[i].output_file_path = None
        /\ pc = "returned" =>
              \A i \in 1..Len(SlotsOf(argument)) :
                  SlotsOf(argument)[i] = None =>
                      /\ i \in DOMAIN downloaded_files /\ i \in Slots
                      /\ downloaded_files[i] = None
                      /\ worker[i].tries = 0

C6_Witness ==
    /\ BatchReturned
    /\ argument.type = "list" /\ Len(argument.value) = 2
    /\ argument.value[1] = None /\ downloaded_files[1] = None
    /\ argument.value[2] # None /\ downloaded_files[2] # None

(***************************************************************************)
(* C7: a slot none of whose attempts succeeded never opens a file, every   *)
(* file on disk is the file of a slot that succeeded, and the entry of a   *)
(* slot whose three attempts failed is None.                               *)
(***************************************************************************)
C7_FailedSlotWritesNothing ==
    BatchCall =>
        /\ \A i \in Slots :
              (worker[i].tries > 0 /\ AttemptFailed(worker[i].response)) =>
                  worker[i].output_file_path = None /\ worker[i].result = None
        /\ DOMAIN fs_files \subseteq
              {abspath(worker[i].output_file_path) : i \in {j \in Slots : Succeeded(j)}}
        /\ pc = "returned" =>
              \A i \in Slots : Exhausted(i) => downloaded_files[i] = None

C7_Witness ==
    /\ BatchReturned
    /\ Len(downloaded_files) = 1
    /\ Exhausted(1) /\ worker[1].response.status_code = 404
    /\ downloaded_files[1] = None
    /\ DOMAIN fs_files = {}

(***************************************************************************)
(* C8: every path in the returned list names a file that is on disk        *)
(* directly inside jobs/j/downloaded_files, and the content of the file is *)
(* the body of the 2xx answer to the slot's own last GET.                  *)
(***************************************************************************)
C8_ReturnedPathHoldsBody ==
    BatchReturned =>
        \A i \in DOMAIN downloaded_files :
            downloaded_files[i] # None =>
                /\ InDownloadDir(downloaded_files[i])
                /\ downloaded_files[i] \in DOMAIN fs_files
                /\ ~AttemptFailed(worker[i].response)
                /\ fs_files[downloaded_files[i]] = worker[i].response.content

C8_Witness ==
    /\ BatchReturned
    /\ Len(downloaded_files) = 2
    /\ downloaded_files[1] # None /\ downloaded_files[2] # None
    /\ worker[1].tries = 2
    /\ fs_files[downloaded_files[1]] = "b1"
    /\ fs_files[downloaded_files[2]] = "b2"

(***************************************************************************)
(* C9: the name of the file written for a 2xx answer whose                 *)
(* Content-Disposition is attachment; filename="a.png" is the uuid         *)
(* followed by .png, and the uuid alone when the header is absent.         *)
(***************************************************************************)
C9_ExtensionFromHeader ==
    BatchReturned =>
        \A i \in DOMAIN downloaded_files :
            downloaded_files[i] # None =>
                /\ worker[i].response.cd = CdQuotedPng =>
                      Tail(worker[i].file_name) = <<".", "p", "n", "g">>
                /\ worker[i].response.cd = None => Tail(worker[i].file_name) = <<>>

(***************************************************************************)
(* C10: the record file returns has extracted_path set iff its type is     *)
(* "zip".                                                                  *)
(***************************************************************************)
C10_ExtractedIffZip ==
    FileReturned => (record.extracted_path # None <=> record.type = <<"z", "i", "p">>)

C10_Witness ==
    /\ FileReturned
    /\ record.type = <<"z", "i", "p">>
    /\ record.extracted_path # None
    /\ record.extracted_path \in fs_dirs

(***************************************************************************)
(* C11: file issues one GET and never a second, and it returns a record    *)
(* only when that GET was answered 2xx: after a transport error or a       *)
(* non-2xx status the call raises instead.                                 *)
(***************************************************************************)
C11_OneGetErrorsPropagate ==
    call = "file" =>
        /\ local.gets <= 1
        /\ pc = "returned" => local.gets = 1 /\ ~AttemptFailed(local.download_response)

(***************************************************************************)
(* C12: the type of the record file returns is the extension of its        *)
(* original_name in lower case and without the dot ("DATA.ZIP" gives       *)
(* "zip"), and is empty when the name has no extension.                    *)
(***************************************************************************)
C12_TypeIsLowercaseExtension ==
    FileReturned =>
        /\ record.type = lower(replace_dot(splitext(record.original_name)[2]))
        /\ record.original_name = <<"D", "A", "T", "A", ".", "Z", "I", "P">> =>
              record.type = <<"z", "i", "p">>
        /\ Find(record.original_name, ".") = 0 => record.type = <<>>

(***************************************************************************)
(* C13: for the header Content-Disposition: attachment;                    *)
(* filename="data.json" the record has type "json" and an original_name    *)
(* that contains data.json" (the raw match, quotes kept).                  *)
(***************************************************************************)
C13_QuotedHeaderGivesJson ==
    (FileReturned /\ local.download_response.cd = CdQuotedJson) =>
        /\ record.type = <<"j", "s", "o", "n">>
        /\ FindSub(record.original_name,
                   <<"d", "a", "t", "a", ".", "j", "s", "o", "n", "\"">>) > 0

(***************************************************************************)
(* C14: once file has named the download, original_file_name is the text   *)
(* after filename= of the Content-Disposition header when the header has   *)
(* one, and the last path segment of the URL when the header is missing    *)
(* or has no filename=; naming never fails the call.  For                  *)
(* http://x/y/report.csv without a filename the record has original_name   *)
(* report.csv, type csv and no extracted_path.                             *)
(***************************************************************************)
\* the last path segment of the URLs handed to file
LastSegment(url) ==
    CASE url = UrlCsv -> <<"r", "e", "p", "o", "r", "t", ".", "c", "s", "v">>
      [] url = UrlZip -> <<"a", ".", "z", "i", "p">>
      [] url = UrlUpperZip -> <<"D", "A", "T", "A", ".", "Z", "I", "P">>
      [] url = UrlDir -> <<>>

\* the text after filename= of the headers that have one
FilenameValue(cd) ==
    CASE cd = CdQuotedJson -> <<"\"", "d", "a", "t", "a", ".", "j", "s", "o", "n", "\"">>
      [] cd = CdZip -> <<"a", ".", "z", "i", "p">>
      [] cd = CdQuotedPng -> <<"\"", "a", ".", "p", "n", "g", "\"">>

C14_NameFromHeaderElseUrl ==
    call = "file" =>
        /\ pc = "raised" => raised \in {"OSError", "Timeout", "BadZipFile"}
        /\ pc \in {"f_write", "f_extract", "f_return", "returned"} =>
              local.original_file_name =
                  IF local.download_response.cd \in {None, CdNoFilename}
                  THEN LastSegment(local.file_url)
                  ELSE FilenameValue(local.download_response.cd)
        /\ (pc = "returned" /\ local.file_url = UrlCsv
                /\ local.download_response.cd \in {None, CdNoFilename}) =>
              /\ record.original_name = <<"r", "e", "p", "o", "r", "t", ".", "c", "s", "v">>
              /\ record.type = <<"c", "s", "v">>
              /\ record.extracted_path = None

C14_Witness ==
    /\ FileReturned
    /\ local.file_url = UrlCsv
    /\ local.download_response.cd = CdNoFilename
    /\ record.original_name = <<"r", "e", "p", "o", "r", "t", ".", "c", "s", "v">>
    /\ record.type = <<"c", "s", "v">>
    /\ record.extracted_path = None

(***************************************************************************)
(* C15: when file returns a record of type zip, file_path is               *)
(* job_files/<id>.zip and extracted_path is job_files/<id> for the same    *)
(* identifier <id>, both absolute; the directory exists and holds exactly  *)
(* the entries of the archive, and the .zip file is still on disk with the *)
(* downloaded body.                                                        *)
(***************************************************************************)
\* the files on disk below directory d, as paths relative to d
FilesBelow(d) ==
    {SubSeq(p, Len(d) + 2, Len(p)) :
        p \in {q \in DOMAIN fs_files :
                 Len(q) > Len(d) + 1 /\ SubSeq(q, 1, Len(d) + 1) = d \o <<"/">>}}

C15_ZipExtractedBesideArchive ==
    (FileReturned /\ record.type = <<"z", "i", "p">>) =>
        LET job_files == <<"/", "w", "/", "job_files", "/">>
            id == record.extracted_path[Len(record.extracted_path)]
        IN  /\ record.extracted_path = job_files \o <<id>>
            /\ record.file_path = job_files \o <<id, ".", "z", "i", "p">>
            /\ record.extracted_path \in fs_dirs
            /\ record.file_path \in DOMAIN fs_files
            /\ fs_files[record.file_path] = local.download_response.content
            /\ FilesBelow(record.extracted_path) = {<<"e", "1">>, <<"d", "/", "e", "2">>}

C15_Witness ==
    /\ FileReturned
    /\ record.type = <<"z", "i", "p">>
    /\ record.file_path \in DOMAIN fs_files
    /\ fs_files[record.file_path] = "PK"
    /\ FilesBelow(record.extracted_path) # {}

(***************************************************************************)
(* C16: in download_files_from_urls the directory jobs/j/downloaded_files  *)
(* exists from the moment the futures are submitted: whenever a worker has *)
(* been dispatched or a file is on disk the directory exists; and when the *)
(* directory exists already, creating it does not fail the call.           *)
(***************************************************************************)
DownloadDirExists ==
    <<"/", "w", "/", "jobs", "/", "j", "/", "downloaded_files">> \in fs_dirs

C16_DirectoryBeforeWorkers ==
    /\ [](BatchCall =>
            /\ pc \in {"submit", "collect", "shutdown", "returned"} => DownloadDirExists
            /\ (\E i \in Slots : worker[i].pc # "pending") => DownloadDirExists
            /\ DOMAIN fs_files # {} => DownloadDirExists)
    /\ [][(BatchCall /\ pc = "makedirs" /\ DownloadDirExists) => pc' # "raised"]_vars

C16_Witness ==
    /\ BatchCall
    /\ DownloadDirExists
    /\ \E i \in Slots :
          worker[i].pc = "write" /\ abspath(worker[i].output_file_path) \in DOMAIN fs_files

(***************************************************************************)
(* C17: with a uuid generator that never repeats, the files of two slots   *)
(* of one call never have the same path, also for equal URLs and under     *)
(* every interleaving; a slot draws its name once and only after its       *)
(* download has succeeded, every file on disk is the file of one slot, and *)
(* the paths of the returned list are pairwise distinct.                   *)
(***************************************************************************)
Named(i) == worker[i].file_name # None

C17_DistinctOutputPaths ==
    BatchCall =>
        /\ \A i, j \in Slots :
              (i # j /\ Named(i) /\ Named(j)) =>
                  worker[i].output_file_path # worker[j].output_file_path
        /\ \A i \in Slots :
              Named(i) => Succeeded(i) /\ worker[i].pc \in {"write", "done", "collected"}
        /\ next_uuid = Cardinality({i \in Slots : Named(i)})
        /\ \A p \in DOMAIN fs_files :
              Cardinality({i \in Slots : Named(i) /\ abspath(worker[i].output_file_path) = p}) = 1
        /\ pc = "returned" =>
              \A i, j \in DOMAIN downloaded_files :
                  (i # j /\ downloaded_files[i] # None) =>
                      downloaded_files[i] # downloaded_files[j]

C17_Witness ==
    /\ BatchReturned
    /\ Len(downloaded_files) = 2
    /\ worker[1].url = worker[2].url
    /\ worker[1].tries = 3 /\ worker[2].tries = 2
    /\ downloaded_files[1] # None /\ downloaded_files[2] # None
    /\ downloaded_files[1] # downloaded_files[2]
    /\ Cardinality(DOMAIN fs_files) = 2

(***************************************************************************)
(* C18: a slot whose open or write failed on the filesystem ends with the  *)
(* OSError as the exception of its future: it never becomes an entry of    *)
(* the list, the call never returns but raises OSError once the futures    *)
(* before it are collected, and the worker takes no further step, so no    *)
(* GET is repeated.                                                        *)
(***************************************************************************)
\* slot i has ended after building its path without its body on disk
FsFailed(i) ==
    /\ worker[i].pc \in {"done", "collected"}
    /\ worker[i].output_file_path # None
    /\ \/ abspath(worker[i].output_file_path) \notin DOMAIN fs_files
       \/ fs_files[abspath(worker[i].output_file_path)] # worker[i].response.content

C18_FilesystemErrorPropagates ==
    /\ [](BatchCall =>
            /\ \A i \in Slots :
                  FsFailed(i) =>
                      /\ worker[i].exc = "OSError" /\ worker[i].pc = "done"
                      /\ Len(downloaded_files) < i
                      /\ pc # "returned"
                      /\ ((\A j \in 1..(i - 1) : worker[j].pc = "collected")
                              /\ pc \in {"shutdown", "raised"}) => raised = "OSError"
            /\ pc = "returned" => \A i \in Slots : worker[i].exc = "none")
    /\ [][\A i \in DOMAIN worker \cap DOMAIN worker' :
             FsFailed(i) => worker'[i] = worker[i]]_vars

C18_Witness ==
    /\ BatchCall /\ pc = "raised" /\ raised = "OSError"
    /\ \E i \in Slots :
          /\ FsFailed(i) /\ worker[i].tries = 1
          /\ abspath(worker[i].output_file_path) \in DOMAIN fs_files

(***************************************************************************)
(* C19 as stated: every call of download_files_from_urls ends by           *)
(* returning; that is, a state of the call in which no step is possible    *)
(* is a state in which it has returned.                                    *)
(***************************************************************************)
C19_EndsByReturning ==
    BatchCall => (pc = "returned" \/ ENABLED Next)

(***************************************************************************)
(* C19 as amended: under fair scheduling every call of                     *)
(* download_files_from_urls eventually returns or raises; it raises only   *)
(* OSError, after os.makedirs or a worker failed on the filesystem; it     *)
(* ends only when no worker is running any more, and it returns only when  *)
(* every worker has reached its outcome and the outcome was collected.     *)
(***************************************************************************)
C19_TerminatesAfterWorkers ==
    /\ BatchCall => <>(pc \in {"returned", "raised"})
    /\ [](BatchCall =>
            /\ pc \in {"returned", "raised"} => \A i \in Slots : Settled(i)
            /\ pc = "returned" =>
                  \A i \in Slots : worker[i].pc = "collected" /\ worker[i].exc = "none"
            /\ pc = "raised" =>
                  /\ raised = "OSError"
                  /\ worker = <<>> \/ \E i \in Slots : FsFailed(i))

C19_Witness ==
    /\ BatchReturned
    /\ Len(downloaded_files) = 2
    /\ worker[1].tries = 3 /\ worker[2].tries = 3
    /\ \A i \in Slots : worker[i].pc = "collected"

(***************************************************************************)
(* C20: when file has downloaded and written a body of type zip that is no *)
(* archive, the call ends by raising BadZipFile and returns no record, and *)
(* nothing is rolled back: the file job_files/<id>.zip with the body and   *)
(* the directory job_files/<id> are both on disk in the state the call     *)
(* leaves behind.                                                          *)
(***************************************************************************)
C20_BadZipPropagatesNoRollback ==
    (/\ call = "file"
     /\ pc \in {"f_return", "returned", "raised"}
     /\ local.file_type = <<"z", "i", "p">>
     /\ abspath(local.output_file_path) \in DOMAIN fs_files
     /\ local.download_response.content # "PK") =>
        LET job_files == <<"/", "w", "/", "job_files", "/">>
            id == local.file_name
        IN  /\ pc = "raised"
            /\ raised = "BadZipFile"
            /\ record = NoRecord
            /\ (job_files \o id \o <<".", "z", "i", "p">>) \in DOMAIN fs_files
            /\ fs_files[job_files \o id \o <<".", "z", "i", "p">>] =
                   local.download_response.content
            /\ (job_files \o id) \in fs_dirs
            /\ FilesBelow(job_files \o id) = {}

C20_Witness ==
    /\ call = "file"
    /\ pc = "raised"
    /\ raised = "BadZipFile"
    /\ local.download_response.content # "PK"
    /\ abspath(local.output_file_path) \in DOMAIN fs_files
    /\ abspath(join(<<"job_files">>, local.file_name)) \in fs_dirs

====
